---- MODULE Spec2Model ----
(***************************************************************************)
(* Model of check_commits.py: validate_commit_message, process_commits and *)
(* main.  Text is a sequence of one-character strings, so that splitlines, *)
(* strip, lower, startswith and the substring test are computed character  *)
(* by character as Python computes them.                                   *)
(***************************************************************************)
EXTENDS Integers, Sequences, FiniteSets, TLC

VARIABLES
    repo,              \* what git answers: [listing, history] (fetch_commits_local)
    summary_path,      \* os.getenv("GITHUB_STEP_SUMMARY"): "" when unset
    commits,           \* the list of {'sha', 'commit': {'message'}} under validation
    sub_limit,         \* --sub-limit
    body_limit,        \* --body-limit
    check_blank_line,  \* --check-blank-line, a string
    pc,                \* position in the program
    i,                 \* process_commits: index of the next commit (1-based)
    failed_count,      \* process_commits: failed_count
    out,               \* lines printed to stdout, in order
    summary,           \* lines appended to the summary file
    locals,            \* locals of the last validate_commit_message call at its return
    result,            \* (sha, errors) returned by the last validate_commit_message call
    exit_status        \* argument of sys.exit, -1 while running

vars == <<repo, summary_path, commits, sub_limit, body_limit, check_blank_line,
          pc, i, failed_count, out, summary, locals, result, exit_status>>

(***************************************************************************)
(* Bounds of the model.                                                    *)
(***************************************************************************)
MaxLines == 5
MaxCommits == 2

(***************************************************************************)
(* Characters and string primitives.                                       *)
(***************************************************************************)
NL == "\n"

Marker == <<"s", "i", "g", "n", "e", "d", "-", "o", "f", "f", "-", "b", "y">>

IsSpace(c) == c \in {" ", "\t", "\n", "\r"}

LowerChar(c) ==
    CASE c = "S" -> "s"
      [] c = "T" -> "t"
      [] c = "X" -> "x"
      [] OTHER -> c

Lower(s) == [k \in 1..Len(s) |-> LowerChar(s[k])]

RECURSIVE LStrip(_)
LStrip(s) ==
    IF s = <<>> THEN <<>>
    ELSE IF IsSpace(Head(s)) THEN LStrip(Tail(s)) ELSE s

RECURSIVE RStrip(_)
RStrip(s) ==
    IF s = <<>> THEN <<>>
    ELSE IF IsSpace(s[Len(s)]) THEN RStrip(SubSeq(s, 1, Len(s) - 1)) ELSE s

Strip(s) == RStrip(LStrip(s))

StartsWith(s, p) == Len(s) >= Len(p) /\ SubSeq(s, 1, Len(p)) = p

Contains(s, p) == \E k \in 0..(Len(s) - Len(p)) : SubSeq(s, k + 1, k + Len(p)) = p

\* The lines of s from position k on, the current line having begun at
\* position start: a line break ends a line, and a text that ends with a line
\* break has no empty last line.
RECURSIVE SplitFrom(_, _, _)
SplitFrom(s, k, start) ==
    IF k > Len(s)
    THEN IF start <= Len(s) THEN <<SubSeq(s, start, Len(s))>> ELSE <<>>
    ELSE IF s[k] = NL
         THEN <<SubSeq(s, start, k - 1)>> \o SplitFrom(s, k + 1, k + 1)
         ELSE SplitFrom(s, k + 1, start)

Splitlines(s) == SplitFrom(s, 1, 1)

(***************************************************************************)
(* validate_commit_message                                                 *)
(***************************************************************************)
Subject(lines) == IF Len(lines) >= 1 THEN lines[1] ELSE <<>>

\* Faulty variant of KeepLine: the marker is compared without lower().
KeepLineCaseSensitive(line) == Strip(line) # <<>> /\ ~StartsWith(line, Marker)

\* The test of both list comprehensions: the line is kept when it is not
\* blank and its raw lowercase form does not start with the marker.
KeepLine(line) == Strip(line) # <<>> /\ ~StartsWith(Lower(line), Marker)

\* [line.strip() for line in lines[k-1:] if ...], k a 1-based index.
RECURSIVE CollectFrom(_, _)
CollectFrom(lines, k) ==
    IF k > Len(lines) THEN <<>>
    ELSE (IF KeepLine(lines[k]) THEN <<Strip(lines[k])>> ELSE <<>>)
         \o CollectFrom(lines, k + 1)

InitialBody(lines) == CollectFrom(lines, 2)

\* Faulty variants of RecollectedBody: the lines are not stripped; the
\* collection starts one line too late.
RECURSIVE CollectRawFrom(_, _)
CollectRawFrom(lines, k) ==
    IF k > Len(lines) THEN <<>>
    ELSE (IF KeepLine(lines[k]) THEN <<lines[k]>> ELSE <<>>)
         \o CollectRawFrom(lines, k + 1)

RecollectedBodyOffByOne(lines) == CollectFrom(lines, 4)
RecollectedBodyUnstripped(lines) == CollectRawFrom(lines, 3)

\* The list rebuilt from lines[2:] when enforcement finds the second line
\* blank or absent.
RecollectedBody(lines) == CollectFrom(lines, 3)

SignedOff(lines) ==
    IF Len(lines) > 0 /\ Contains(Lower(lines[Len(lines)]), Marker)
    THEN lines[Len(lines)]
    ELSE <<>>

\* Faulty variant of Enforced: the flag is compared without lower().
EnforcedExactCase(flag) == flag = <<"t", "r", "u", "e">>

\* check_blank_line.lower() == "true"
Enforced(flag) == Lower(flag) = <<"t", "r", "u", "e">>

MissingSubBodyLine(lines, flag) ==
    Enforced(flag) /\ Len(lines) > 1 /\ Strip(lines[2]) # <<>>

Body(lines, flag) ==
    IF Enforced(flag) /\ ~MissingSubBodyLine(lines, flag)
    THEN RecollectedBody(lines)
    ELSE InitialBody(lines)

\* Faulty variant of MissingBodySignLine: lines[-2] is compared unstripped.
MissingBodySignLineUnstripped(lines, flag) ==
    /\ Enforced(flag)
    /\ SignedOff(lines) # <<>>
    /\ Len(lines) >= 2
    /\ lines[Len(lines) - 1] # <<>>

MissingBodySignLine(lines, flag) ==
    /\ Enforced(flag)
    /\ SignedOff(lines) # <<>>
    /\ Len(lines) >= 2
    /\ Strip(lines[Len(lines) - 1]) # <<>>

MissingSubject == "Commit message is missing subject!"
SubjectExceeds == "Subject exceeds {sub_char_limit} characters!"
SubjectBodyBlank == "Subject and body must be separated by a blank line"
BodySignBlank == "Body and Signed-off-by must be separated by a blank line"
MissingBody == "Commit message is missing a body!"
LineExceeds == "Line exceeds {body_char_limit} characters: {line}"

\* One violation string: the text, and the values its f-string fills in.
Err(text) == [msg |-> text, limit |-> 0, line |-> <<>>]
SubjectErr(limit) == [msg |-> SubjectExceeds, limit |-> limit, line |-> <<>>]
LineErr(limit, line) == [msg |-> LineExceeds, limit |-> limit, line |-> line]

\* Faulty variant of SubjectTooLong: >= for >.
SubjectTooLongInclusive(subject, limit) == Len(subject) >= limit

SubjectTooLong(subject, limit) == Len(subject) > limit

RECURSIVE LineErrors(_, _)
LineErrors(body, limit) ==
    IF body = <<>> THEN <<>>
    ELSE (IF Len(Head(body)) > limit THEN <<LineErr(limit, Head(body))>> ELSE <<>>)
         \o LineErrors(Tail(body), limit)

\* The state of the function at its return statement.
Locals(message, flag) ==
    LET lines == Splitlines(message)
    IN [lines |-> lines,
        subject |-> Subject(lines),
        body |-> Body(lines, flag),
        signed_off |-> SignedOff(lines),
        missing_sub_body_line |-> MissingSubBodyLine(lines, flag),
        missing_body_sign_line |-> MissingBodySignLine(lines, flag)]

\* Faulty variant of Errors: the first violation found is the only one.
ErrorsFirstOnly(l, sub_char_limit, body_char_limit, flag) ==
    IF Len(Strip(l.subject)) = 0 THEN <<Err(MissingSubject)>>
    ELSE IF SubjectTooLong(l.subject, sub_char_limit)
         THEN <<SubjectErr(sub_char_limit)>>
    ELSE IF Enforced(flag) /\ l.missing_sub_body_line /\ l.subject # <<>> /\ l.body # <<>>
         THEN <<Err(SubjectBodyBlank)>>
    ELSE IF Enforced(flag) /\ l.missing_body_sign_line /\ l.body # <<>>
               /\ l.signed_off # <<>>
         THEN <<Err(BodySignBlank)>>
    ELSE IF Len(l.body) = 0 THEN <<Err(MissingBody)>>
    ELSE LET over == LineErrors(l.body, body_char_limit)
         IN IF over = <<>> THEN <<>> ELSE <<Head(over)>>

\* Faulty variant of Errors: the separator rule is evaluated before the
\* subject-length rule.
ErrorsSeparatorFirst(l, sub_char_limit, body_char_limit, flag) ==
    (IF Len(Strip(l.subject)) = 0 THEN <<Err(MissingSubject)>> ELSE <<>>)
    \o (IF Enforced(flag) /\ l.missing_sub_body_line /\ l.subject # <<>> /\ l.body # <<>>
        THEN <<Err(SubjectBodyBlank)>> ELSE <<>>)
    \o (IF SubjectTooLong(l.subject, sub_char_limit)
        THEN <<SubjectErr(sub_char_limit)>> ELSE <<>>)
    \o (IF Enforced(flag) /\ l.missing_body_sign_line /\ l.body # <<>>
           /\ l.signed_off # <<>>
        THEN <<Err(BodySignBlank)>> ELSE <<>>)
    \o (IF Len(l.body) = 0 THEN <<Err(MissingBody)>> ELSE <<>>)
    \o LineErrors(l.body, body_char_limit)

\* The errors list, in the order of the appends.
Errors(l, sub_char_limit, body_char_limit, flag) ==
    (IF Len(Strip(l.subject)) = 0 THEN <<Err(MissingSubject)>> ELSE <<>>)
    \o (IF SubjectTooLong(l.subject, sub_char_limit)
        THEN <<SubjectErr(sub_char_limit)>> ELSE <<>>)
    \o (IF Enforced(flag) /\ l.missing_sub_body_line /\ l.subject # <<>> /\ l.body # <<>>
        THEN <<Err(SubjectBodyBlank)>> ELSE <<>>)
    \o (IF Enforced(flag) /\ l.missing_body_sign_line /\ l.body # <<>>
           /\ l.signed_off # <<>>
        THEN <<Err(BodySignBlank)>> ELSE <<>>)
    \o (IF Len(l.body) = 0 THEN <<Err(MissingBody)>> ELSE <<>>)
    \o LineErrors(l.body, body_char_limit)

\* return sha, errors
Return(commit, l, sub_char_limit, body_char_limit, flag) ==
    [sha |-> commit.sha,
     errors |-> Errors(l, sub_char_limit, body_char_limit, flag)]

validate_commit_message(commit, sub_char_limit, body_char_limit, flag) ==
    Return(commit, Locals(commit.commit.message, flag),
           sub_char_limit, body_char_limit, flag)

(***************************************************************************)
(* Inputs.                                                                 *)
(***************************************************************************)
SignOffLine == <<"S">> \o Tail(Marker)

\* The lines messages are built from: empty, whitespace only, a padded
\* line of text, a sign-off trailer, and an indented sign-off trailer.
LineSet ==
    { <<>>, <<" ", " ", " ">>, <<" ", "x", "x">>,
      SignOffLine, <<" ">> \o SignOffLine }

RECURSIVE Join(_)
Join(ls) ==
    IF ls = <<>> THEN <<>>
    ELSE IF Len(ls) = 1 THEN ls[1]
    ELSE ls[1] \o <<NL>> \o Join(Tail(ls))

\* Every text of at most MaxLines newline-separated segments of LineSet; a
\* text whose last segment is empty is one that ends with a line break.
Messages == { Join(ls) : ls \in UNION { [1..k -> LineSet] : k \in 0..MaxLines } }

\* Limits on both sides of the lengths of the lines of LineSet: the padded
\* line has 3 characters and 2 once stripped, the sign-off trailer has
\* Len(Marker) and the indented one, one more.
SubLimits == {2, 3}
BodyLimits == {1, Len(Marker)}

\* Values of --check-blank-line: one that enables enforcement only through
\* lower(), and one that disables it.
Flags == { <<"T", "r", "u", "e">>, <<"f", "a", "l", "s", "e">> }

Commit(sha, message) == [sha |-> sha, commit |-> [message |-> message]]

NoLocals == Locals(<<>>, <<>>)
NoResult == [sha |-> 0, errors |-> <<>>]

(***************************************************************************)
(* A direct call of validate_commit_message, as the unit tests make it.    *)
(***************************************************************************)
Init ==
    /\ repo = [listing |-> "unused", history |-> <<>>]
    /\ summary_path = <<>>
    /\ commits \in { <<Commit(1, m)>> : m \in Messages }
    /\ sub_limit \in SubLimits
    /\ body_limit \in BodyLimits
    /\ check_blank_line \in Flags
    /\ pc = "call"
    /\ i = 1
    /\ failed_count = 0
    /\ out = <<>>
    /\ summary = <<>>
    /\ locals = NoLocals
    /\ result = NoResult
    /\ exit_status = -1

Validate ==
    /\ pc = "call"
    /\ LET l == Locals(commits[1].commit.message, check_blank_line)
       IN /\ locals' = l
          /\ result' = Return(commits[1], l, sub_limit, body_limit, check_blank_line)
    /\ pc' = "returned"
    /\ UNCHANGED <<repo, summary_path, commits, sub_limit, body_limit,
                   check_blank_line, i, failed_count, out, summary, exit_status>>

Next == Validate

Spec == Init /\ [][Next]_vars

(***************************************************************************)
(* main: fetch_commits_local, process_commits, the summary and sys.exit.   *)
(***************************************************************************)
Line(kind, sha, err) == [kind |-> kind, sha |-> sha, err |-> err]

RECURSIVE ErrorLines(_, _)
ErrorLines(sha, errors) ==
    IF errors = <<>> THEN <<>>
    ELSE <<Line("error", sha, Head(errors))>> \o ErrorLines(sha, Tail(errors))

\* What process_commits prints for one commit.
Report(r) ==
    IF r.errors # <<>>
    THEN <<Line("group", r.sha, Err(""))>> \o ErrorLines(r.sha, r.errors)
         \o <<Line("endgroup", r.sha, Err(""))>>
    ELSE <<Line("pass", r.sha, Err(""))>>

\* Faulty variant of FailedIncrement: one per violation.
FailedIncrementPerError(errors) == Len(errors)

\* if errors: failed_count += 1
FailedIncrement(errors) == IF errors # <<>> THEN 1 ELSE 0

ExitStatus(count) == IF count # 0 THEN 1 ELSE 0

\* The commits fetch_commits_local builds, and the warnings it prints.
RECURSIVE FetchedCommits(_)
FetchedCommits(history) ==
    IF history = <<>> THEN <<>>
    ELSE <<Commit(Head(history).sha,
                  IF Head(history).readable THEN Head(history).message ELSE <<>>)>>
         \o FetchedCommits(Tail(history))

RECURSIVE FetchWarnings(_)
FetchWarnings(history) ==
    IF history = <<>> THEN <<>>
    ELSE (IF Head(history).readable THEN <<>>
          ELSE <<Line("warning", Head(history).sha, Err(""))>>)
         \o FetchWarnings(Tail(history))

\* Messages of the commits of a history: empty, passing, passing only
\* without enforcement, failing with a trailing line break, and well-formed
\* with a sign-off.
SampleMessages ==
    { <<>>,
      Join(<< <<"x">>, <<>>, <<"x">> >>),
      Join(<< <<"x">>, <<"x">> >>),
      Join(<< <<" ", "x", "x", "x">>, <<"x">>, <<>> >>),
      Join(<< <<"x">>, <<>>, <<"x">>, <<>>, SignOffLine >>) }

Entries ==
    [message : SampleMessages, readable : {TRUE}]
    \cup [message : {<<>>}, readable : {FALSE}]

\* rev-list answers distinct shas: the k-th commit has sha k.
Histories ==
    UNION { { [k \in 1..n |-> [sha |-> k, message |-> e[k].message,
                               readable |-> e[k].readable]] : e \in [1..n -> Entries] } :
            n \in 0..MaxCommits }

Repos ==
    { [head |-> <<>>, listing |-> "ok", history |-> <<>>],
      [head |-> <<"h">>, listing |-> "fails", history |-> <<>>] }
    \cup { [head |-> <<"h">>, listing |-> "ok", history |-> h] : h \in Histories }

InitMain ==
    /\ repo \in Repos
    /\ summary_path \in { <<>>, <<"s">> }
    /\ commits = <<>>
    /\ sub_limit \in SubLimits
    /\ body_limit \in BodyLimits
    /\ check_blank_line \in Flags
    /\ pc = "fetch"
    /\ i = 1
    /\ failed_count = 0
    /\ out = <<>>
    /\ summary = <<>>
    /\ locals = NoLocals
    /\ result = NoResult
    /\ exit_status = -1

FetchFails ==
    /\ pc = "fetch"
    /\ repo.head = <<>> \/ repo.listing = "fails"
    /\ out' = Append(out, Line("fatal", 0, Err("")))
    /\ exit_status' = 2
    /\ pc' = "done"
    /\ UNCHANGED <<repo, summary_path, commits, sub_limit, body_limit,
                   check_blank_line, i, failed_count, summary, locals, result>>

FetchCommits ==
    /\ pc = "fetch"
    /\ repo.head # <<>> /\ repo.listing = "ok"
    /\ commits' = FetchedCommits(repo.history)
    /\ out' = out \o FetchWarnings(repo.history)
    /\ failed_count' = 0
    /\ i' = 1
    /\ pc' = "process"
    /\ UNCHANGED <<repo, summary_path, sub_limit, body_limit, check_blank_line,
                   summary, locals, result, exit_status>>

\* One iteration of the loop of process_commits.
ProcessCommit ==
    /\ pc = "process"
    /\ i <= Len(commits)
    /\ LET l == Locals(commits[i].commit.message, check_blank_line)
           r == Return(commits[i], l, sub_limit, body_limit, check_blank_line)
       IN /\ result' = r
          /\ locals' = l
          /\ out' = out \o Report(r)
          /\ failed_count' = failed_count + FailedIncrement(r.errors)
    /\ i' = i + 1
    /\ UNCHANGED <<repo, summary_path, commits, sub_limit, body_limit,
                   check_blank_line, pc, summary, exit_status>>

\* process_commits returns; main writes the summary and exits.
Finish ==
    /\ pc = "process"
    /\ i > Len(commits)
    /\ summary' = IF summary_path # <<>>
                  THEN <<"### Commit Validation Summary",
                         IF failed_count # 0 THEN "failed" ELSE "passed">>
                  ELSE summary
    /\ exit_status' = ExitStatus(failed_count)
    /\ pc' = "done"
    /\ UNCHANGED <<repo, summary_path, commits, sub_limit, body_limit,
                   check_blank_line, i, failed_count, out, locals, result>>

NextMain == FetchFails \/ FetchCommits \/ ProcessCommit \/ Finish

MainSpec == InitMain /\ [][NextMain]_vars

(***************************************************************************)
(* Vocabulary of the properties.                                           *)
(***************************************************************************)
TrueFlag == <<"t", "r", "u", "e">>
FalseFlag == <<"f", "a", "l", "s", "e">>

\* The settings of --check-blank-line that enable enforcement.
Enabled == check_blank_line \in { TrueFlag, <<"T", "r", "u", "e">> }

Returned == pc = "returned"

Range(s) == { s[k] : k \in 1..Len(s) }

Blank(line) == Strip(line) = <<>>

RECURSIVE IsSubsequence(_, _)
IsSubsequence(a, b) ==
    IF a = <<>> THEN TRUE
    ELSE IF b = <<>> THEN FALSE
    ELSE IF Head(a) = Head(b) THEN IsSubsequence(Tail(a), Tail(b))
    ELSE IsSubsequence(a, Tail(b))

Reported(text) == \E e \in Range(result.errors) : e.msg = text

\* subject, blank, body lines, blank, sign-off trailer
WellFormed(lines) ==
    LET n == Len(lines)
    IN /\ n >= 5
       /\ ~Blank(lines[1])
       /\ Len(lines[1]) <= sub_limit
       /\ Blank(lines[2])
       /\ \A k \in 3..(n - 2) : ~Blank(lines[k]) /\ Len(lines[k]) <= body_limit
       /\ Blank(lines[n - 1])
       /\ StartsWith(lines[n], SignOffLine)

\* C1, as stated: with enforcement enabled every well-formed message gets
\* no violation, and the identifier returned is the commit's sha.
C1_AsStated ==
    (Returned /\ Enabled /\ WellFormed(locals.lines))
        => (result.errors = <<>> /\ result.sha = commits[1].sha)

\* C1, amended: with enforcement enabled every well-formed message one of
\* whose body lines does not start with the sign-off marker (in any case) gets
\* no violation, and the identifier returned is the commit's sha.
C1_WellFormedPasses ==
    (/\ Returned /\ Enabled /\ WellFormed(locals.lines)
     /\ \E k \in 3..(Len(locals.lines) - 2) :
            ~StartsWith(Lower(locals.lines[k]), Marker))
        => (result.errors = <<>> /\ result.sha = commits[1].sha)

C1_Witness ==
    /\ Returned /\ Enabled /\ WellFormed(locals.lines)
    /\ \E k \in 3..(Len(locals.lines) - 2) :
           ~StartsWith(Lower(locals.lines[k]), Marker)
    /\ Len(locals.lines) = 5
    /\ result.errors = <<>>

\* C2, as stated: with enforcement the separator violation is reported iff
\* the second line is not blank, the trimmed subject is not empty and the body
\* is not empty; without enforcement it is never reported.
C2_AsStated ==
    Returned =>
        IF Enabled
        THEN Reported(SubjectBodyBlank) <=>
                 (/\ Len(locals.lines) >= 2 /\ ~Blank(locals.lines[2])
                  /\ Strip(locals.subject) # <<>>
                  /\ locals.body # <<>>)
        ELSE ~Reported(SubjectBodyBlank)

\* C2, amended: with enforcement the separator violation is reported iff
\* the second line is not blank, the subject as written (untrimmed) is not
\* empty and the body is not empty; without enforcement it is never reported.
C2_SeparatorReportedIff ==
    Returned =>
        IF Enabled
        THEN Reported(SubjectBodyBlank) <=>
                 (/\ Len(locals.lines) >= 2 /\ ~Blank(locals.lines[2])
                  /\ locals.subject # <<>>
                  /\ locals.body # <<>>)
        ELSE ~Reported(SubjectBodyBlank)

C2_Witness ==
    /\ Returned /\ Enabled /\ Reported(SubjectBodyBlank)
    /\ Blank(locals.subject)

\* C3, as stated: a first line that after trimming is not empty and is at
\* most subject_limit long gets neither subject violation.
C3_AsStated ==
    (/\ Returned /\ Len(locals.lines) >= 1
     /\ Strip(locals.lines[1]) # <<>>
     /\ Len(Strip(locals.lines[1])) <= sub_limit)
        => (~Reported(MissingSubject) /\ ~Reported(SubjectExceeds))

\* C3, amended: a first line that is not blank after trimming and whose
\* untrimmed length is at most subject_limit gets neither subject violation,
\* whatever the other lines and the flag are.
C3_SubjectRulesSilent ==
    (/\ Returned /\ Len(locals.lines) >= 1
     /\ Strip(locals.lines[1]) # <<>>
     /\ Len(locals.lines[1]) <= sub_limit)
        => (~Reported(MissingSubject) /\ ~Reported(SubjectExceeds))

C3_Witness ==
    /\ Returned /\ Len(locals.lines) >= 2
    /\ Strip(locals.lines[1]) # <<>>
    /\ Len(locals.lines[1]) <= sub_limit
    /\ result.errors # <<>>
    /\ ~Reported(MissingSubject) /\ ~Reported(SubjectExceeds)

\* The violations of the message of the state with enforcement on and off:
\* the one for the flag of the state is the result the call returned, the
\* other is computed from the locals the function has with the other flag.
OtherFlag == IF Enabled THEN FalseFlag ELSE TrueFlag

OtherLocals == Locals(commits[1].commit.message, OtherFlag)

OtherErrors(l) == Errors(l, sub_limit, body_limit, OtherFlag)

\* C4: the violations without enforcement are no more than, and all occur
\* (in the same order) among, the violations with enforcement.
C4_OffWithinOn ==
    Returned =>
        LET other == OtherErrors(OtherLocals)
            on == IF Enabled THEN result.errors ELSE other
            off == IF Enabled THEN other ELSE result.errors
        IN /\ Len(off) <= Len(on)
           /\ Range(off) \subseteq Range(on)
           /\ IsSubsequence(off, on)

C4_Witness ==
    /\ Returned /\ ~Enabled
    /\ result.errors # <<>>
    /\ Len(result.errors) < Len(OtherErrors(OtherLocals))

\* C5: the empty message gets exactly the missing-subject violation
\* followed by the missing-body violation, with either flag.
C5_EmptyMessage ==
    (Returned /\ commits[1].commit.message = <<>>)
        => result.errors = <<Err(MissingSubject), Err(MissingBody)>>

C5_Witness ==
    /\ Returned /\ commits[1].commit.message = <<>>
    /\ ~Enabled
    /\ Len(result.errors) = 2

Rank(e) ==
    CASE e.msg = MissingSubject -> 1
      [] e.msg = SubjectExceeds -> 2
      [] e.msg = SubjectBodyBlank -> 3
      [] e.msg = BodySignBlank -> 4
      [] e.msg = MissingBody -> 5
      [] e.msg = LineExceeds -> 6
      [] OTHER -> 0

LineViolations(errors) == SelectSeq(errors, LAMBDA e : e.msg = LineExceeds)

OverLong(body) == SelectSeq(body, LAMBDA b : Len(b) > body_limit)

\* C7: the violations come in the order of the rules, each of the first
\* five at most once; every rule whose condition holds has its violation in
\* the list; the line violations are those of the over-long body lines, in
\* body order.
C7_FixedOrder ==
    Returned =>
        LET e == result.errors
        IN /\ \A j, k \in 1..Len(e) :
                  j < k => /\ Rank(e[j]) <= Rank(e[k])
                           /\ Rank(e[j]) = Rank(e[k]) => Rank(e[j]) = 6
           /\ \A k \in 1..Len(e) : Rank(e[k]) # 0
           /\ Blank(locals.subject) => Reported(MissingSubject)
           /\ Len(locals.subject) > sub_limit =>
                  SubjectErr(sub_limit) \in Range(e)
           /\ (Enabled /\ locals.missing_sub_body_line
                 /\ locals.subject # <<>> /\ locals.body # <<>>)
                  => Reported(SubjectBodyBlank)
           /\ (Enabled /\ locals.missing_body_sign_line
                 /\ locals.body # <<>> /\ locals.signed_off # <<>>)
                  => Reported(BodySignBlank)
           /\ locals.body = <<>> => Reported(MissingBody)
           /\ LET lv == LineViolations(e)
                  ol == OverLong(locals.body)
              IN /\ Len(lv) = Len(ol)
                 /\ \A k \in 1..Len(lv) : lv[k] = LineErr(body_limit, ol[k])

C7_Witness ==
    /\ Returned
    /\ Reported(MissingSubject) /\ Reported(SubjectExceeds)
    /\ Reported(SubjectBodyBlank) /\ Reported(BodySignBlank)
    /\ Reported(LineExceeds)

Front(s) == SubSeq(s, 1, Len(s) - 1)

\* C8: the body has no blank line, and when the final line is the sign-off
\* line (its lowercase form contains the marker) the body has nothing of it:
\* it is the body collected from the lines before it.
C8_BodyExcludesSignOff ==
    Returned =>
        /\ \A k \in 1..Len(locals.body) : ~Blank(locals.body[k])
        /\ locals.signed_off # <<>> =>
               locals.body = InitialBody(Front(locals.lines))

\* The stripped lines after the first that are not blank and do not meet
\* the given exclusion, in order.
Admitted(lines, Excluded(_)) ==
    LET kept == SelectSeq(SubSeq(lines, 2, Len(lines)),
                          LAMBDA ln : ~Blank(ln) /\ ~Excluded(ln))
    IN [k \in 1..Len(kept) |-> Strip(kept[k])]

MentionsMarker(line) == Contains(Lower(line), Marker)
BeginsWithMarker(line) == StartsWith(Lower(line), Marker)

TailViolations(errors) == SelectSeq(errors, LAMBDA e : Rank(e) >= 5)

\* C10: the body is the same with enforcement on and off; when the second
\* line is blank or absent the lines collected from index 2 are those
\* collected from index 1; the missing-body and line-length violations do not
\* depend on the flag.
C10_BodyIndependentOfFlag ==
    Returned =>
        LET other == OtherLocals
        IN /\ locals.body = other.body
           /\ (Len(locals.lines) < 2 \/ Blank(locals.lines[2]))
                  => RecollectedBody(locals.lines) = InitialBody(locals.lines)
           /\ TailViolations(result.errors) = TailViolations(OtherErrors(other))

C10_Witness ==
    /\ Returned /\ Enabled
    /\ Len(locals.lines) >= 3 /\ Blank(locals.lines[2])
    /\ ~locals.missing_sub_body_line
    /\ Len(locals.body) >= 2
    /\ Reported(LineExceeds)

(***************************************************************************)
(* process_commits and main.                                               *)
(***************************************************************************)
Headers == SelectSeq(out, LAMBDA l : l.kind \in {"pass", "group"})

Fails(c) ==
    validate_commit_message(c, sub_limit, body_limit, check_blank_line).errors # <<>>

\* C6: the commits are visited in input order, each reported once by a
\* pass line or an error group; the failure count is the number of commits
\* with a violation; main exits non-zero exactly when that count is at least
\* one, and with zero when every commit passes.
C6_CountAndExit ==
    pc \in {"process", "done"} /\ exit_status # 2 =>
        /\ Len(Headers) = i - 1
        /\ i - 1 <= Len(commits)
        /\ \A k \in 1..Len(Headers) :
               /\ Headers[k].sha = commits[k].sha
               /\ Headers[k].kind = (IF Fails(commits[k]) THEN "group" ELSE "pass")
        /\ failed_count = Cardinality({ k \in 1..(i - 1) : Fails(commits[k]) })
        /\ pc = "done" =>
               /\ i - 1 = Len(commits)
               /\ exit_status # 0 <=> failed_count >= 1
               /\ (\A k \in 1..Len(commits) : ~Fails(commits[k])) <=> exit_status = 0

C6_Witness ==
    /\ pc = "done"
    /\ Len(commits) = 2
    /\ Fails(commits[1]) /\ ~Fails(commits[2])
    /\ failed_count = 1
    /\ exit_status = 1

====
